---- MODULE Spec2Model ----
(***************************************************************************)
(* The job execution layer of snakemake (snakemake/executors.py): the      *)
(* dry-run, touch, CPU-pool, generic-cluster, synchronous-cluster and      *)
(* DRMAA executors, the submitting (scheduler) thread, the cluster         *)
(* completion poller and the pool workers.                                 *)
(*                                                                         *)
(* One executor is constructed per behaviour (backend is chosen in Init).  *)
(* The scheduler thread issues run calls serially, for jobs 1, 2, ... in   *)
(* that order, and may call shutdown or cancel between them.  Everything   *)
(* a job's collaborators are asked to do (dag.*, persistence.*, job.*,     *)
(* the scheduler's callbacks) is recorded, with the thread that did it, in *)
(* log[j].  The scheduler's callbacks are taken to return normally.        *)
(***************************************************************************)
EXTENDS Integers, Sequences, FiniteSets, TLC

\* ------------------------------------------------------------------ bounds
NJobs == 2          \* jobs the scheduler may pass to run
MaxShutdowns == 2   \* shutdown / cancel calls the scheduler may make
MaxProtected == 1   \* only jobs 1..MaxProtected may have a read-only output
MaxRepeats == 2     \* largest benchmark_repeats passed to run_wrapper

Jobs == 1..NJobs

Backends == {"dryrun", "touch", "cpu", "generic", "sync", "drmaa"}
ClusterBackends == {"generic", "sync", "drmaa"}

VARIABLES
    backend,      \* the executor class that was constructed
    mainpc,       \* position of the submitting thread
    mainjob,      \* the job of the run call the submitting thread is in (0: none)
    nrun,         \* run calls made so far; run was called for jobs 1..nrun
    protected,    \* jobs with a read-only output on disk (job.check_protected_output fails)
    runres,       \* runres[j]: "none" | "running" | "returned" | "raised"
    log,          \* log[j]: sequence of <<event, thread>> for job j
    files,        \* files[j]: the files of j in tmpdir, among script, jobfinished, jobfailed
    remote,       \* remote[j]: "none" | "running" | "ok" | "fail" (submitted work of j)
    tmpdir,       \* "unset" (_tmpdir is None) | "exists" | "removed"
    active_jobs,  \* ClusterExecutor.active_jobs
    local,        \* the poller's local list active_jobs, swapped out for this iteration
    lock,         \* holder of ClusterExecutor.lock: "none" | "main" | "poller"
    wait,         \* ClusterExecutor.wait
    pollerpc,     \* "sleep" | "loop" | "exited" (returned) | "dead" (uncaught exception)
    future,       \* future[j]: "none" | "pending" | the outcome of the pool task
    attached,     \* attached[j]: the completion handler is attached to future[j]
    route,        \* route[j]: "none" | "threadpool" | "pool"
    poolshut,     \* CPUExecutor.pool was shut down
    template,     \* template[j]: "none" | "live" | "deleted" (DRMAA job template)
    submitted,    \* DRMAAExecutor.submitted
    session,      \* "none" | "open" | "exited" (DRMAA session)
    control,      \* the TERMINATE requests made to the session: <<id, session state>>
    shutdowns,    \* results of the shutdown / cancel calls, in order
    call,         \* the method the submitting thread is in: "none" | "shutdown" | "cancel"
    external_jobid, \* external_jobid: output path -> external id (generic, synchronous)
    stdout,       \* run in progress: the decoded stdout of the submit command
    deps,         \* run in progress: the string substituted for {dependencies}
    wpc,          \* run_wrapper: "idle" | "loop" | "write" | "returned" | "raised"
    wbench,       \* run_wrapper: a benchmark path was given (benchmark is not None)
    wrepeats,     \* run_wrapper: benchmark_repeats
    wruns,        \* run_wrapper: executions of the rule body started so far
    wallclock,    \* run_wrapper: the list wallclock
    wfile,        \* the benchmark file: <<>> (absent) | <<its lines>>
    wexc          \* run_wrapper: the exception it raised ("none": none)

vars == <<backend, mainpc, mainjob, nrun, protected, runres, log,
          files, remote, tmpdir, active_jobs, local, lock, wait, pollerpc,
          future, attached, route, poolshut, template, submitted, session,
          control, shutdowns, call, external_jobid, stdout, deps,
          wpc, wbench, wrepeats, wruns, wallclock, wfile, wexc>>

jobvars == <<protected, runres, log, files, remote>>
clustervars == <<active_jobs, local, lock, wait, pollerpc>>
cpuvars == <<future, attached, route, poolshut>>
drmaavars == <<template, submitted, session, control>>
submitvars == <<external_jobid, stdout, deps>>
wrappervars == <<wpc, wbench, wrepeats, wruns, wallclock, wfile, wexc>>
executorvars == <<backend, mainpc, mainjob, nrun, jobvars, tmpdir, clustervars, cpuvars,
                  drmaavars, shutdowns, call, submitvars>>

\* ----------------------------------------------------------------- helpers
Tag(evs, th) == [i \in 1..Len(evs) |-> <<evs[i], th>>]

Has(evs, e) == \E i \in 1..Len(evs) : evs[i] = e

Count(j, e) == Cardinality({i \in 1..Len(log[j]) : log[j][i][1] = e})

\* position of the first occurrence of e in log[j], 0 when there is none
Pos(j, e) ==
    LET at == {i \in 1..Len(log[j]) : log[j][i][1] = e} IN
    IF at = {} THEN 0
    ELSE CHOOSE i \in at : \A k \in at : i <= k

\* ---------------------------------------------------------------- strings
\* A string is the sequence of its characters.
NL == "\n"

\* the prefix of s before the first sep (all of s when it has none)
UpTo(s, sep) ==
    IF \E i \in 1..Len(s) : s[i] = sep
    THEN SubSeq(s, 1, (CHOOSE i \in 1..Len(s) :
                          s[i] = sep /\ \A k \in 1..(i - 1) : s[k] # sep) - 1)
    ELSE s

RECURSIVE Split(_, _)
\* str.split(sep) for a one-character sep: "".split(sep) is [""]
Split(s, sep) ==
    LET head == UpTo(s, sep) IN
    IF Len(head) = Len(s) THEN <<s>>
    ELSE <<head>> \o Split(SubSeq(s, Len(head) + 2, Len(s)), sep)

RECURSIVE Join(_, _)
\* sep.join(parts)
Join(parts, sep) ==
    IF parts = <<>> THEN <<>>
    ELSE IF Len(parts) = 1 THEN parts[1]
    ELSE parts[1] \o <<sep>> \o Join(Tail(parts), sep)

\* ------------------------------------------------------------------- jobs
\* job.output and job.input: every job has two output paths, and every job
\* but the first reads one output of the job before it
Output(j) == {2 * j - 1, 2 * j}

Input(j) == IF j = 1 THEN <<>> ELSE <<2 * (j - 1)>>

\* the id the batch system gives to the submission of job j
ExtId(j) == <<ToString(j)>>

\* what the submit command of job j may print when it exits with 0: nothing,
\* the id on the first line, or the id after an empty line
Stdouts(j) == {<<>>, ExtId(j) \o <<NL>>, <<NL>> \o ExtId(j) \o <<NL>>}

\* ------------------------------------------------- outcomes of collaborators
\* what the post-run protocol's collaborators do: all return, dag.check_output
\* raises (an output is still missing after latency_wait), or
\* dag.handle_protected raises an OS error
FinishOutcomes == {"ok", "MissingOutput", "OSError"}

\* how a pool task (run_wrapper) can end
PoolOutcomes == {"ok", "RuleException", "KeyboardInterrupt", "SystemExit",
                 "BrokenProcessPool"}

\* how job.prepare() can end: it creates the output directories, or raises
PrepareOutcomes == {"ok", "raise"}

\* _ProcessPoolExceptions (BrokenProcessPool is importable: Python >= 3.3)
ProcessPoolExceptions == {"KeyboardInterrupt", "BrokenProcessPool"}

\* ------------------------------------------------------- executor protocols
\* AbstractExecutor._run
AbstractRunEvents == <<"printjob">>

\* DryrunExecutor._run
DryrunRunEvents == AbstractRunEvents \o <<"log_shellcmd">>

\* RealExecutor._run (an IOError of persistence.started is logged, not raised)
RealRunEvents == AbstractRunEvents \o <<"report_job_start", "persistence_started">>

\* ClusterExecutor._run
ClusterRunEvents == RealRunEvents \o <<"log_shellcmd">>

\* mutant of AbstractRun: the dry run goes through RealExecutor._run, which
\* reports the start to the stats and writes the persistence marker
AbstractRunRealProtocol(isprotected) ==
    IF isprotected
    THEN [evs |-> <<"check_protected_output">>, exc |-> "ProtectedOutput"]
    ELSE [evs |-> <<"check_protected_output">> \o RealRunEvents \o <<"on_success">>,
          exc |-> "none"]

\* AbstractExecutor.run, inherited unchanged by DryrunExecutor only
AbstractRun(isprotected) ==
    IF isprotected
    THEN [evs |-> <<"check_protected_output">>, exc |-> "ProtectedOutput"]
    ELSE [evs |-> <<"check_protected_output">> \o DryrunRunEvents \o <<"on_success">>,
          exc |-> "none"]

\* mutant of AbstractFinishJob: the output check comes after the handling of
\* protected and temp outputs
AbstractFinishJobReordered(fo) ==
    IF fo = "MissingOutput"
    THEN [evs |-> <<"handle_touch", "handle_protected", "handle_temp", "check_output">>,
          exc |-> fo]
    ELSE IF fo = "OSError"
    THEN [evs |-> <<"handle_touch", "handle_protected">>, exc |-> fo]
    ELSE [evs |-> <<"handle_touch", "handle_protected", "handle_temp", "check_output">>,
          exc |-> "none"]

\* AbstractExecutor.finish_job
AbstractFinishJob(fo) ==
    IF fo = "MissingOutput"
    THEN [evs |-> <<"handle_touch", "check_output">>, exc |-> fo]
    ELSE IF fo = "OSError"
    THEN [evs |-> <<"handle_touch", "check_output", "handle_protected">>, exc |-> fo]
    ELSE [evs |-> <<"handle_touch", "check_output", "handle_protected", "handle_temp">>,
          exc |-> "none"]

\* RealExecutor.finish_job (an IOError of persistence.finished is logged, not raised)
FinishJob(fo) ==
    LET a == AbstractFinishJob(fo) IN
    IF a.exc # "none" THEN a
    ELSE [evs |-> a.evs \o <<"report_job_end", "persistence_finished">>, exc |-> "none"]

\* the error protocol of CPUExecutor._callback
ErrorProtocol == <<"print_job_error", "print_exception", "job_cleanup",
                   "persistence_cleanup", "on_error">>

\* the body of TouchExecutor.run after _run; tk is how touching the outputs ends
TouchBody(tk, fo) ==
    IF tk = "OSError"
    THEN [evs |-> <<"touch", "print_exception", "on_error">>, exc |-> "none"]
    ELSE LET f == FinishJob(fo) IN
         IF f.exc = "none"
         THEN [evs |-> <<"touch">> \o f.evs \o <<"on_success">>, exc |-> "none"]
         ELSE IF f.exc = "OSError"
         THEN [evs |-> <<"touch">> \o f.evs \o <<"print_exception", "on_error">>,
               exc |-> "none"]
         ELSE [evs |-> <<"touch">> \o f.evs, exc |-> f.exc]

\* mutant of Callback: the error handler is a "finally" clause, so it runs
\* after a success as well
CallbackAlwaysError(ex, fo) ==
    IF ex = "ok"
    THEN [evs |-> FinishJob(fo).evs
                  \o (IF FinishJob(fo).exc = "none" THEN <<"on_success">> ELSE <<>>)
                  \o ErrorProtocol,
          exc |-> "none"]
    ELSE IF ex \in ProcessPoolExceptions
    THEN [evs |-> <<"job_cleanup", "persistence_cleanup">>, exc |-> "none"]
    ELSE [evs |-> ErrorProtocol, exc |-> "none"]

\* CPUExecutor._callback; ex is future.exception() ("ok": None)
Callback(ex, fo) ==
    IF ex = "ok"
    THEN LET f == FinishJob(fo) IN
         IF f.exc = "none"
         THEN [evs |-> f.evs \o <<"on_success">>, exc |-> "none"]
         ELSE [evs |-> f.evs \o ErrorProtocol, exc |-> "none"]
    ELSE IF ex \in ProcessPoolExceptions
    THEN [evs |-> <<"job_cleanup", "persistence_cleanup">>, exc |-> "none"]
    ELSE [evs |-> ErrorProtocol, exc |-> "none"]

\* mutant of DoneCallbackThread: run waits for the future and calls the
\* handler itself
DoneCallbackThreadCaller(done_at_attach) == "main"

\* The thread that runs the completion handler of a future: add_done_callback
\* calls it at once, on the caller's thread, when the future is already done.
DoneCallbackThread(done_at_attach) == IF done_at_attach THEN "main" ELSE "worker"

\* mutant of GenericExamine: a job without a sentinel is taken to have failed
GenericExamineNoEvidenceFails(fs, fo) ==
    IF "jobfinished" \in fs
    THEN LET f == FinishJob(fo) IN
         [rm |-> {"jobfinished", "script"},
          evs |-> IF f.exc = "none" THEN f.evs \o <<"on_success">> ELSE f.evs,
          exc |-> f.exc, keep |-> FALSE]
    ELSE [rm |-> {"jobfailed", "script"},
          evs |-> <<"print_job_error", "print_exception", "on_error">>,
          exc |-> "none", keep |-> FALSE]

\* mutant of GenericExamine: a job without a sentinel is not appended to
\* self.active_jobs again
GenericExamineDropsWaiting(fs, fo) ==
    IF "jobfinished" \in fs
    THEN LET f == FinishJob(fo) IN
         [rm |-> {"jobfinished", "script"},
          evs |-> IF f.exc = "none" THEN f.evs \o <<"on_success">> ELSE f.evs,
          exc |-> f.exc, keep |-> FALSE]
    ELSE IF "jobfailed" \in fs
    THEN [rm |-> {"jobfailed", "script"},
          evs |-> <<"print_job_error", "print_exception", "on_error">>,
          exc |-> "none", keep |-> FALSE]
    ELSE [rm |-> {}, evs |-> <<>>, exc |-> "none", keep |-> FALSE]

\* GenericClusterExecutor._wait_for_jobs, one active job; fs are its files.
\* rm: files removed; keep: re-appended to active_jobs
GenericExamine(fs, fo) ==
    IF "jobfinished" \in fs
    THEN LET f == FinishJob(fo) IN
         [rm |-> {"jobfinished", "script"},
          evs |-> IF f.exc = "none" THEN f.evs \o <<"on_success">> ELSE f.evs,
          exc |-> f.exc, keep |-> FALSE]
    ELSE IF "jobfailed" \in fs
    THEN [rm |-> {"jobfailed", "script"},
          evs |-> <<"print_job_error", "print_exception", "on_error">>,
          exc |-> "none", keep |-> FALSE]
    ELSE [rm |-> {}, evs |-> <<>>, exc |-> "none", keep |-> TRUE]

\* SynchronousClusterExecutor._wait_for_jobs, one active job; rs is the state of
\* its submit process ("running": poll() is None, "ok": 0, "fail": non-zero).
\* The failure branch names jobscript, which no scope of _wait_for_jobs
\* defines: evaluating the arguments of print_exception raises NameError.
SynchronousExamine(rs, fo) ==
    IF rs = "running"
    THEN [rm |-> {}, evs |-> <<>>, exc |-> "none", keep |-> TRUE]
    ELSE IF rs = "ok"
    THEN LET f == FinishJob(fo) IN
         [rm |-> {"script"},
          evs |-> IF f.exc = "none" THEN f.evs \o <<"on_success">> ELSE f.evs,
          exc |-> f.exc, keep |-> FALSE]
    ELSE [rm |-> {"script"}, evs |-> <<"print_job_error">>,
          exc |-> "NameError", keep |-> FALSE]

\* DRMAAExecutor._wait_for_jobs, one active job; w is how session.wait ends
\* ("InternalException", or "returned" as far as the job's state rs allows)
DRMAAExamine(w, rs, fo) ==
    IF w = "InternalException"
    THEN [rm |-> {"script"}, evs |-> <<"print_exception", "on_error">>,
          exc |-> "none", keep |-> FALSE]
    ELSE IF rs = "running"
    THEN [rm |-> {}, evs |-> <<>>, exc |-> "none", keep |-> TRUE]
    ELSE IF rs = "ok"
    THEN LET f == FinishJob(fo) IN
         [rm |-> {"script"},
          evs |-> IF f.exc = "none" THEN f.evs \o <<"on_success">> ELSE f.evs,
          exc |-> f.exc, keep |-> FALSE]
    ELSE [rm |-> {"script"},
          evs |-> <<"print_job_error", "print_exception", "on_error">>,
          exc |-> "none", keep |-> FALSE]

\* mutant of DRMAASubmit: the "return" of the except clause is missing
DRMAASubmitNoReturn(d) ==
    IF d = "ok"
    THEN [evs |-> <<"on_submit">>, template |-> "deleted", accepted |-> TRUE,
          exc |-> "none"]
    ELSE [evs |-> <<"print_exception", "on_error", "on_submit">>,
          template |-> "deleted", accepted |-> TRUE, exc |-> "none"]

\* DRMAAExecutor.run from createJobTemplate on; d is the call that raises a
\* DRMAA internal / invalid-attribute error ("ok": none does)
DRMAASubmit(d) ==
    IF d = "ok"
    THEN [evs |-> <<"on_submit">>, template |-> "deleted", accepted |-> TRUE,
          exc |-> "none"]
    ELSE [evs |-> <<"print_exception", "on_error">>,
          template |-> IF d = "runJob" THEN "live" ELSE "none",
          accepted |-> FALSE, exc |-> "none"]

\* mutant of Rmtree: the directory is left in place
RmtreeKeepsDirectory(exists) == exists

\* shutil.rmtree(path): whether the directory exists afterwards
Rmtree(exists) == FALSE

\* mutant of TerminateRequests: cancel only delegates to shutdown, as the
\* cancel of the other cluster backends does
TerminateRequestsNone(subm, sess) == <<>>

\* DRMAAExecutor.cancel: session.control(jobid, TERMINATE) for every jobid of
\* self.submitted, in order; sess is the state of the session they are made in
TerminateRequests(subm, sess) == [i \in 1..Len(subm) |-> <<subm[i], sess>>]

\* mutant of Joined: shutdown does not join the poller
JoinedAtOnce(pc) == TRUE

\* ClusterExecutor.shutdown joins the poller: the states in which join returns
Joined(pc) == pc \in {"exited", "dead"}

\* --------------------------------------------------------------------- Init
Init ==
    /\ backend \in Backends
    /\ mainpc = "idle"
    /\ mainjob = 0
    /\ nrun = 0
    /\ protected = {}
    /\ runres = [j \in Jobs |-> "none"]
    /\ log = [j \in Jobs |-> <<>>]
    /\ files = [j \in Jobs |-> {}]
    /\ remote = [j \in Jobs |-> "none"]
    /\ tmpdir = "unset"
    /\ active_jobs = <<>>
    /\ local = <<>>
    /\ lock = "none"
    /\ wait = TRUE
    /\ pollerpc = IF backend \in ClusterBackends THEN "sleep" ELSE "none"
    /\ future = [j \in Jobs |-> "none"]
    /\ attached = [j \in Jobs |-> FALSE]
    /\ route = [j \in Jobs |-> "none"]
    /\ poolshut = FALSE
    /\ template = [j \in Jobs |-> "none"]
    /\ submitted = <<>>
    /\ session = IF backend = "drmaa" THEN "open" ELSE "none"
    /\ control = <<>>
    /\ shutdowns = <<>>
    /\ call = "none"
    /\ external_jobid = <<>>
    /\ stdout = <<>>
    /\ deps = <<>>
    /\ wpc = "idle"
    /\ wbench = FALSE
    /\ wrepeats = 0
    /\ wruns = 0
    /\ wallclock = <<>>
    /\ wfile = <<>>
    /\ wexc = "none"

\* ------------------------------------------------------ the submitting thread
\* the scheduler calls run for the next job; isprotected: it has a read-only output
CallRun(j, isprotected) ==
    /\ mainpc = "idle"
    /\ isprotected => j <= MaxProtected
    /\ j = nrun + 1
    /\ j \in Jobs
    /\ nrun' = j
    /\ protected' = IF isprotected THEN protected \cup {j} ELSE protected

\* the scheduler may call shutdown or cancel
CallShutdown ==
    /\ mainpc = "idle"
    /\ Len(shutdowns) < MaxShutdowns

Emit(j, evs, th) == log' = [log EXCEPT ![j] = @ \o Tag(evs, th)]

\* AbstractExecutor.run as DryrunExecutor inherits it
DryrunRun(j) ==
    \E isprotected \in BOOLEAN :
        LET r == AbstractRun(isprotected) IN
        /\ backend = "dryrun"
        /\ CallRun(j, isprotected)
        /\ Emit(j, r.evs, "main")
        /\ runres' = [runres EXCEPT ![j] = IF r.exc = "none" THEN "returned" ELSE "raised"]
        /\ UNCHANGED <<backend, mainpc, mainjob, files, remote, tmpdir,
                       clustervars, cpuvars, drmaavars, shutdowns, call, submitvars,
                       wrappervars>>

\* TouchExecutor.run
TouchRun(j) ==
    \E isprotected \in BOOLEAN, tk \in {"ok", "OSError"}, fo \in FinishOutcomes :
        LET r == TouchBody(tk, fo) IN
        /\ backend = "touch"
        /\ CallRun(j, isprotected)
        /\ Emit(j, RealRunEvents \o r.evs, "main")
        /\ runres' = [runres EXCEPT ![j] = IF r.exc = "none" THEN "returned" ELSE "raised"]
        /\ UNCHANGED <<backend, mainpc, mainjob, files, remote, tmpdir,
                       clustervars, cpuvars, drmaavars, shutdowns, call, submitvars,
                       wrappervars>>

\* CPUExecutor.run up to pool.submit.  job.prepare belongs to the job: it
\* creates the output directories and may raise.  Shell jobs go to
\* self.threadpool, the others to self.pool, which refuses a task once it
\* was shut down.
CPURunSubmit(j) ==
    \E isprotected \in BOOLEAN, prep \in PrepareOutcomes, shell \in BOOLEAN :
        LET pool == IF shell THEN "threadpool" ELSE "pool"
            refused == pool = "pool" /\ poolshut
        IN
        /\ backend = "cpu"
        /\ CallRun(j, isprotected)
        /\ IF prep = "raise"
           THEN /\ Emit(j, <<"prepare">>, "main")
                /\ runres' = [runres EXCEPT ![j] = "raised"]
                /\ UNCHANGED <<future, route, mainpc, mainjob>>
           ELSE /\ Emit(j, <<"prepare">> \o RealRunEvents, "main")
                /\ IF refused
                   THEN /\ runres' = [runres EXCEPT ![j] = "raised"]
                        /\ UNCHANGED <<future, route, mainpc, mainjob>>
                   ELSE /\ runres' = [runres EXCEPT ![j] = "running"]
                        /\ future' = [future EXCEPT ![j] = "pending"]
                        /\ route' = [route EXCEPT ![j] = pool]
                        /\ mainpc' = "attach"
                        /\ mainjob' = j
        /\ UNCHANGED <<backend, files, remote, tmpdir, clustervars, attached,
                       poolshut, drmaavars, shutdowns, call, submitvars, wrappervars>>

\* CPUExecutor.run: future.add_done_callback(partial(self._callback, ...)),
\* which runs the handler at once when the future is done already
CPURunAttach ==
    \E fo \in FinishOutcomes :
        LET j == mainjob
            done == future[j] # "pending"
            r == Callback(future[j], fo)
        IN
        /\ backend = "cpu"
        /\ mainpc = "attach"
        /\ attached' = [attached EXCEPT ![j] = TRUE]
        /\ IF done
           THEN Emit(j, r.evs, DoneCallbackThread(done))
           ELSE UNCHANGED log
        /\ runres' = [runres EXCEPT ![j] = "returned"]
        /\ mainpc' = "idle"
        /\ mainjob' = 0
        /\ UNCHANGED <<backend, nrun, protected, files, remote, tmpdir,
                       clustervars, future, route, poolshut, drmaavars, shutdowns, call,
                       submitvars, wrappervars>>

\* a pool worker finishes the task of job j with outcome ex and, when the
\* completion handler is attached already, runs it
WorkerFinish(j) ==
    \E ex \in PoolOutcomes, fo \in FinishOutcomes :
        LET r == Callback(ex, fo) IN
        /\ backend = "cpu"
        /\ future[j] = "pending"
        /\ ex = "BrokenProcessPool" => route[j] = "pool"
        /\ future' = [future EXCEPT ![j] = ex]
        /\ IF attached[j]
           THEN Emit(j, r.evs, DoneCallbackThread(FALSE))
           ELSE UNCHANGED log
        /\ UNCHANGED <<backend, mainpc, mainjob, nrun, protected, runres, files,
                       remote, tmpdir, clustervars, attached, route, poolshut,
                       drmaavars, shutdowns, call, submitvars, wrappervars>>

\* CPUExecutor.shutdown and CPUExecutor.cancel: self.pool.shutdown(), which
\* blocks until the tasks submitted to self.pool are done
CPUShutdown ==
    /\ backend = "cpu"
    /\ CallShutdown
    /\ \A j \in Jobs : route[j] = "pool" => future[j] # "pending"
    /\ poolshut' = TRUE
    /\ shutdowns' = Append(shutdowns, "returned")
    /\ UNCHANGED <<backend, mainpc, mainjob, nrun, jobvars, tmpdir, clustervars,
                   future, attached, route, drmaavars, call, submitvars, wrappervars>>

\* AbstractExecutor.shutdown (dry-run, touch): pass
AbstractShutdown ==
    /\ backend \in {"dryrun", "touch"}
    /\ CallShutdown
    /\ shutdowns' = Append(shutdowns, "returned")
    /\ UNCHANGED <<backend, mainpc, mainjob, nrun, jobvars, tmpdir, clustervars,
                   cpuvars, drmaavars, call, submitvars, wrappervars>>

\* ------------------------------------------------------------ cluster: run
\* mutant of GenericSubmit: a failed submission is reported through the error
\* callback, as the DRMAA backend does, instead of being raised
GenericSubmitSwallow(sub) ==
    IF sub = "ok"
    THEN [evs |-> <<"on_submit">>, template |-> "none", accepted |-> TRUE, exc |-> "none"]
    ELSE [evs |-> <<"CalledProcessError", "on_error">>, template |-> "none",
          accepted |-> FALSE, exc |-> "none"]

\* mutant of GenericSubmit: submit_callback is called before the exit code of
\* the submit command is known
GenericSubmitCallbackFirst(sub) ==
    IF sub = "ok"
    THEN [evs |-> <<"on_submit">>, template |-> "none", accepted |-> TRUE, exc |-> "none"]
    ELSE [evs |-> <<"on_submit", "CalledProcessError">>, template |-> "none",
          accepted |-> FALSE, exc |-> "WorkflowError"]

\* GenericClusterExecutor.run from subprocess.check_output on; sub is how the
\* submit command ends ("ok": exit code 0)
GenericSubmit(sub) ==
    IF sub = "ok"
    THEN [evs |-> <<"on_submit">>, template |-> "none", accepted |-> TRUE, exc |-> "none"]
    ELSE [evs |-> <<"CalledProcessError">>, template |-> "none", accepted |-> FALSE,
          exc |-> "WorkflowError"]

\* run: " ".join(self.external_jobid[f] for f in job.input
\*               if f in self.external_jobid)
Deps(e, inputs) ==
    LET known == SelectSeq(inputs, LAMBDA f : f \in DOMAIN e) IN
    Join([i \in 1..Len(known) |-> e[known[i]]], " ")

\* GenericClusterExecutor.run: ext_jobid = <stdout>.split("\n"), and
\* "if ext_jobid and ext_jobid[0]" the first line is recorded for every
\* output path; e is external_jobid, outs is job.output, out is the stdout
RecordExternalJobid(e, outs, out) ==
    LET ext_jobid == Split(out, NL) IN
    IF ext_jobid # <<>> /\ ext_jobid[1] # <<>>
    THEN [f \in (DOMAIN e) \cup outs |-> IF f \in outs THEN ext_jobid[1] ELSE e[f]]
    ELSE e

\* mutant of SynchronousSubmit: submit_callback is not called
SynchronousSubmitNoCallback ==
    [evs |-> <<>>, template |-> "none", accepted |-> TRUE, exc |-> "none"]

\* SynchronousClusterExecutor.run from subprocess.Popen on
SynchronousSubmit ==
    [evs |-> <<"on_submit">>, template |-> "none", accepted |-> TRUE, exc |-> "none"]

\* The part of run that the cluster backends share: _run, get_jobscript (the
\* tmpdir property creates the directory on first use), spawn_jobscript
\* (open(jobscript, "w") fails once the directory was removed), then the
\* backend's submission s.  An accepted job is appended by RunAppend.
ClusterRunStep(j, s) ==
    /\ IF tmpdir = "removed"
       THEN /\ Emit(j, ClusterRunEvents, "main")
            /\ runres' = [runres EXCEPT ![j] = "raised"]
            /\ UNCHANGED <<files, remote, tmpdir, mainpc, mainjob, template, submitted>>
       ELSE /\ tmpdir' = "exists"
            /\ files' = [files EXCEPT ![j] = {"script"}]
            /\ Emit(j, ClusterRunEvents \o s.evs, "main")
            /\ template' = [template EXCEPT ![j] = s.template]
            /\ IF s.accepted
               THEN /\ remote' = [remote EXCEPT ![j] = "running"]
                    /\ submitted' = IF backend = "drmaa" THEN Append(submitted, j)
                                    ELSE submitted
                    /\ runres' = [runres EXCEPT ![j] = "running"]
                    /\ mainpc' = "append"
                    /\ mainjob' = j
               ELSE /\ runres' = [runres EXCEPT ![j] =
                                     IF s.exc = "none" THEN "returned" ELSE "raised"]
                    /\ UNCHANGED <<remote, submitted, mainpc, mainjob>>
    /\ UNCHANGED <<backend, clustervars, cpuvars, session, control, shutdowns, call,
                   wrappervars>>

\* GenericClusterExecutor.run up to submit_callback(job)
GenericRun(j) ==
    \E isprotected \in BOOLEAN, sub \in {"ok", "fail"} :
        /\ backend = "generic"
        /\ CallRun(j, isprotected)
        /\ ClusterRunStep(j, GenericSubmit(sub))
        /\ IF tmpdir # "removed" /\ GenericSubmit(sub).accepted
           THEN \E out \in Stdouts(j) :
                    /\ deps' = Deps(external_jobid, Input(j))
                    /\ stdout' = out
                    /\ external_jobid' = RecordExternalJobid(external_jobid, Output(j), out)
           ELSE UNCHANGED submitvars

\* SynchronousClusterExecutor.run up to submit_callback(job)
SynchronousRun(j) ==
    \E isprotected \in BOOLEAN :
        /\ backend = "sync"
        /\ CallRun(j, isprotected)
        /\ ClusterRunStep(j, SynchronousSubmit)
        /\ IF tmpdir # "removed"
           THEN /\ deps' = Deps(external_jobid, Input(j))
                /\ UNCHANGED <<external_jobid, stdout>>
           ELSE UNCHANGED submitvars

\* DRMAAExecutor.run up to submit_callback(job), or to its return on a DRMAA error
DRMAARun(j) ==
    \E isprotected \in BOOLEAN, d \in {"ok", "createJobTemplate", "runJob"} :
        /\ backend = "drmaa"
        /\ CallRun(j, isprotected)
        /\ ClusterRunStep(j, DRMAASubmit(d))
        /\ UNCHANGED submitvars

\* mutant of RunLock: run appends without taking the lock
RunLockSkipped ==
    /\ mainpc = "append"
    /\ mainpc' = "locked"
    /\ UNCHANGED <<backend, mainjob, nrun, jobvars, tmpdir, active_jobs, local, lock,
                   wait, pollerpc, cpuvars, drmaavars, shutdowns, call, submitvars,
                   wrappervars>>

\* run: "with self.lock:" entered
RunLock ==
    /\ mainpc = "append"
    /\ lock = "none"
    /\ lock' = "main"
    /\ mainpc' = "locked"
    /\ UNCHANGED <<backend, mainjob, nrun, jobvars, tmpdir, active_jobs, local,
                   wait, pollerpc, cpuvars, drmaavars, shutdowns, call, submitvars,
                   wrappervars>>

\* run: self.active_jobs.append(...), the lock is released and run returns
\* (its locals are gone)
RunAppend ==
    /\ mainpc = "locked"
    /\ active_jobs' = Append(active_jobs, mainjob)
    /\ lock' = "none"
    /\ runres' = [runres EXCEPT ![mainjob] = "returned"]
    /\ mainpc' = "idle"
    /\ mainjob' = 0
    /\ stdout' = <<>>
    /\ deps' = <<>>
    /\ UNCHANGED <<backend, nrun, protected, log, files, remote, tmpdir,
                   local, wait, pollerpc, cpuvars, drmaavars, shutdowns, call,
                   external_jobid, wrappervars>>

\* ------------------------------------------------------- cluster: the poller
\* _wait_for_jobs: the lock is taken; return when wait is false, else swap
\* active_jobs for an empty list.  An iteration that finds active_jobs empty
\* releases the lock at once and changes nothing.
PollBegin ==
    /\ pollerpc = "sleep"
    /\ lock = "none"
    /\ IF ~wait
       THEN /\ pollerpc' = "exited"
            /\ UNCHANGED <<lock, local, active_jobs>>
       ELSE IF active_jobs = <<>>
       THEN UNCHANGED <<pollerpc, lock, local, active_jobs>>
       ELSE /\ pollerpc' = "loop"
            /\ lock' = "poller"
            /\ local' = active_jobs
            /\ active_jobs' = <<>>
    /\ UNCHANGED <<backend, mainpc, mainjob, nrun, jobvars, tmpdir, wait,
                   cpuvars, drmaavars, shutdowns, call, submitvars, wrappervars>>

\* how the backend's poller treats one active job
Examine(j, w, fo) ==
    IF backend = "generic" THEN GenericExamine(files[j], fo)
    ELSE IF backend = "sync" THEN SynchronousExamine(remote[j], fo)
    ELSE DRMAAExamine(w, remote[j], fo)

\* _wait_for_jobs: the body of "for active_job in active_jobs".  After the
\* last job the lock is released and the poller sleeps.  An exception that
\* leaves the loop releases the lock and ends the thread, and with it the
\* local list.
PollJob ==
    \E w \in {"returned", "InternalException"}, fo \in FinishOutcomes :
        LET j == Head(local)
            r == Examine(j, w, fo)
            last == Len(local) = 1
        IN
        /\ pollerpc = "loop"
        /\ local # <<>>
        /\ files' = [files EXCEPT ![j] = @ \ r.rm]
        /\ Emit(j, r.evs, "poller")
        /\ IF r.exc # "none"
           THEN /\ pollerpc' = "dead"
                /\ lock' = "none"
                /\ local' = <<>>
                /\ UNCHANGED active_jobs
           ELSE /\ local' = Tail(local)
                /\ active_jobs' = IF r.keep THEN Append(active_jobs, j) ELSE active_jobs
                /\ pollerpc' = IF last THEN "sleep" ELSE "loop"
                /\ lock' = IF last THEN "none" ELSE "poller"
        /\ UNCHANGED <<backend, mainpc, mainjob, nrun, protected, runres, remote,
                       tmpdir, wait, cpuvars, drmaavars, shutdowns, call, submitvars,
                       wrappervars>>

\* the submitted work of job j ends.  The generic job script touches one
\* sentinel in tmpdir: "... && touch jobfinished || touch jobfailed".
RemoteEnd(j) ==
    \E oc \in {"ok", "fail"} :
        /\ remote[j] = "running"
        /\ remote' = [remote EXCEPT ![j] = oc]
        /\ files' = IF backend = "generic" /\ tmpdir = "exists"
                    THEN [files EXCEPT ![j] =
                             @ \cup {IF oc = "ok" THEN "jobfinished" ELSE "jobfailed"}]
                    ELSE files
        /\ UNCHANGED <<backend, mainpc, mainjob, nrun, protected, runres, log,
                       tmpdir, clustervars, cpuvars, drmaavars, shutdowns, call,
                       submitvars, wrappervars>>

\* ------------------------------------------------ cluster: shutdown, cancel
\* the scheduler calls shutdown or cancel.  DRMAAExecutor.cancel first asks
\* the session to TERMINATE every submitted id; the cancel of the other
\* backends writes a log line and is shutdown from there on.
ClusterShutdownCall ==
    \E c \in IF backend = "drmaa" THEN {"shutdown", "cancel"} ELSE {"shutdown"} :
        /\ backend \in ClusterBackends
        /\ CallShutdown
        /\ mainpc' = "sd_begin"
        /\ call' = c
        /\ remote' = IF c = "cancel" /\ backend = "drmaa"
                     THEN [j \in Jobs |->
                             IF remote[j] = "running" /\ Has(submitted, j)
                             THEN "fail" ELSE remote[j]]
                     ELSE remote
        /\ control' = IF c = "cancel" /\ backend = "drmaa"
                      THEN control \o TerminateRequests(submitted, session)
                      ELSE control
        /\ UNCHANGED <<backend, mainjob, nrun, protected, runres, log, files,
                       tmpdir, clustervars, cpuvars, template, submitted, session,
                       shutdowns, submitvars, wrappervars>>

\* ClusterExecutor.shutdown: "with self.lock:" entered
ShutdownLock ==
    /\ mainpc = "sd_begin"
    /\ lock = "none"
    /\ lock' = "main"
    /\ mainpc' = "sd_locked"
    /\ UNCHANGED <<backend, mainjob, nrun, jobvars, tmpdir, active_jobs, local,
                   wait, pollerpc, cpuvars, drmaavars, shutdowns, call, submitvars,
                   wrappervars>>

\* ClusterExecutor.shutdown: self.wait = False, the lock is released
ShutdownClearWait ==
    /\ mainpc = "sd_locked"
    /\ wait' = FALSE
    /\ lock' = "none"
    /\ mainpc' = "join"
    /\ UNCHANGED <<backend, mainjob, nrun, jobvars, tmpdir, active_jobs, local,
                   pollerpc, cpuvars, drmaavars, shutdowns, call, submitvars,
                   wrappervars>>

\* ClusterExecutor.shutdown: self.wait_thread.join() returned, then
\* shutil.rmtree(self.tmpdir) (the tmpdir property creates the directory if
\* it was never used; rmtree raises when the directory is gone already);
\* DRMAAExecutor.shutdown then exits the session
ShutdownJoin ==
    /\ mainpc = "join"
    /\ Joined(pollerpc)
    /\ IF tmpdir = "removed"
       THEN /\ shutdowns' = Append(shutdowns, "raised")
            /\ UNCHANGED <<tmpdir, files, session>>
       ELSE /\ tmpdir' = IF Rmtree(TRUE) THEN "exists" ELSE "removed"
            /\ files' = IF Rmtree(TRUE) THEN files ELSE [j \in Jobs |-> {}]
            /\ session' = IF backend = "drmaa" THEN "exited" ELSE session
            /\ shutdowns' = Append(shutdowns, "returned")
    /\ mainpc' = "idle"
    /\ call' = "none"
    /\ UNCHANGED <<backend, mainjob, nrun, protected, runres, log,
                   remote, clustervars, cpuvars, template, submitted, control,
                   submitvars, wrappervars>>

\* the completion handler of job j's future has run
Handled(j) == attached[j] /\ future[j] \in PoolOutcomes

\* --------------------------------------------------------------------- Next
Next ==
    \/ \E j \in Jobs : DryrunRun(j)
    \/ \E j \in Jobs : TouchRun(j)
    \/ \E j \in Jobs : CPURunSubmit(j)
    \/ CPURunAttach
    \/ \E j \in Jobs : WorkerFinish(j)
    \/ CPUShutdown
    \/ AbstractShutdown
    \/ \E j \in Jobs : GenericRun(j)
    \/ \E j \in Jobs : SynchronousRun(j)
    \/ \E j \in Jobs : DRMAARun(j)
    \/ RunLock
    \/ RunAppend
    \/ PollBegin
    \/ PollJob
    \/ \E j \in Jobs : RemoteEnd(j)
    \/ ClusterShutdownCall
    \/ ShutdownLock
    \/ ShutdownClearWait
    \/ ShutdownJoin

Spec == Init /\ [][Next]_vars

\* Scheduling: the poller thread, the pool workers and the submitting thread
\* keep running, locks are eventually granted, and submitted work ends.  The
\* scheduler itself is free to stop calling run, shutdown and cancel.
Fairness ==
    /\ WF_vars(PollBegin)
    /\ WF_vars(PollJob)
    /\ WF_vars(CPURunAttach)
    /\ WF_vars(RunAppend)
    /\ WF_vars(ShutdownClearWait)
    /\ WF_vars(ShutdownJoin)
    /\ SF_vars(RunLock)
    /\ SF_vars(ShutdownLock)
    /\ \A j \in Jobs : WF_vars(WorkerFinish(j))
    /\ \A j \in Jobs : WF_vars(RemoteEnd(j))

FairSpec == Spec /\ Fairness

\* ------------------------------------------- the cluster executors alone
ClusterInit == Init /\ backend \in ClusterBackends

ClusterNext ==
    \/ \E j \in Jobs : GenericRun(j)
    \/ \E j \in Jobs : SynchronousRun(j)
    \/ \E j \in Jobs : DRMAARun(j)
    \/ RunLock
    \/ RunAppend
    \/ PollBegin
    \/ PollJob
    \/ \E j \in Jobs : RemoteEnd(j)
    \/ ClusterShutdownCall
    \/ ShutdownLock
    \/ ShutdownClearWait
    \/ ShutdownJoin

ClusterSpec == ClusterInit /\ [][ClusterNext]_vars

\* ------------------------------- cluster: callbacks that call the executor
\* mutant of LockAcquire: the lock is a threading.RLock
LockAcquireReentrant(holder, th) == holder \in {"none", th}

\* threading.Lock.acquire by thread th: whether it returns.  The lock has no
\* owner check: a thread that holds it blocks on a second acquire.
LockAcquire(holder, th) == holder = "none"

\* the poller has just invoked a terminal callback
CallbackInvoked(evs) ==
    /\ evs # <<>>
    /\ evs[Len(evs)] \in {"on_success", "on_error"}

\* The terminal callback of the job under examination calls shutdown (or
\* DRMAAExecutor.cancel) of the same executor on the poller thread: cancel
\* sends its TERMINATE requests, then shutdown enters "with self.lock:".
\* With the lock it would clear wait and join its own thread, which raises
\* RuntimeError out of the callback.
PollCallbackShutdown ==
    \E w \in {"returned", "InternalException"}, fo \in FinishOutcomes,
       c \in IF backend = "drmaa" THEN {"shutdown", "cancel"} ELSE {"shutdown"} :
        LET j == Head(local)
            r == Examine(j, w, fo)
        IN
        /\ backend \in ClusterBackends
        /\ pollerpc = "loop"
        /\ local # <<>>
        /\ r.exc = "none"
        /\ CallbackInvoked(r.evs)
        /\ files' = [files EXCEPT ![j] = @ \ r.rm]
        /\ Emit(j, r.evs \o <<"call_shutdown">>, "poller")
        /\ remote' = IF c = "cancel"
                     THEN [i \in Jobs |->
                             IF remote[i] = "running" /\ Has(submitted, i)
                             THEN "fail" ELSE remote[i]]
                     ELSE remote
        /\ control' = IF c = "cancel"
                      THEN control \o TerminateRequests(submitted, session)
                      ELSE control
        /\ IF LockAcquire(lock, "poller")
           THEN /\ wait' = FALSE
                /\ pollerpc' = "dead"
                /\ lock' = "none"
                /\ local' = <<>>
           ELSE /\ pollerpc' = "blocked"
                /\ UNCHANGED <<wait, lock, local>>
        /\ UNCHANGED <<backend, mainpc, mainjob, nrun, protected, runres, tmpdir,
                       active_jobs, cpuvars, template, submitted, session,
                       shutdowns, call, submitvars, wrappervars>>

\* the submission of the backend's run, d and sub its outcomes
Submit(sub, d) ==
    IF backend = "generic" THEN GenericSubmit(sub)
    ELSE IF backend = "sync" THEN SynchronousSubmit
    ELSE DRMAASubmit(d)

\* The terminal callback of the job under examination calls run for the next
\* job k on the poller thread.  run writes the job script and submits; a
\* failed generic submission raises out of the callback and ends the poller,
\* a DRMAA error invokes on_error(k) and run returns, and an accepted
\* submission reaches "with self.lock:" before the append.
PollCallbackRun ==
    \E w \in {"returned", "InternalException"}, fo \in FinishOutcomes,
       sub \in {"ok", "fail"}, d \in {"ok", "createJobTemplate", "runJob"} :
        LET j == Head(local)
            r == Examine(j, w, fo)
            k == nrun + 1
            s == Submit(sub, d)
            last == Len(local) = 1
        IN
        /\ backend \in ClusterBackends
        /\ backend = "generic" => d = "ok"
        /\ backend = "sync" => sub = "ok" /\ d = "ok"
        /\ backend = "drmaa" => sub = "ok"
        /\ pollerpc = "loop"
        /\ local # <<>>
        /\ r.exc = "none"
        /\ CallbackInvoked(r.evs)
        /\ k \in Jobs
        /\ nrun' = k
        /\ files' = [files EXCEPT ![j] = @ \ r.rm, ![k] = {"script"}]
        /\ log' = [log EXCEPT ![j] = @ \o Tag(r.evs \o <<"call_run">>, "poller"),
                              ![k] = @ \o Tag(ClusterRunEvents \o s.evs, "poller")]
        /\ template' = [template EXCEPT ![k] = s.template]
        /\ IF s.accepted
           THEN /\ remote' = [remote EXCEPT ![k] = "running"]
                /\ submitted' = IF backend = "drmaa" THEN Append(submitted, k)
                                ELSE submitted
                /\ IF backend = "generic"
                   THEN \E out \in Stdouts(k) :
                            /\ deps' = Deps(external_jobid, Input(k))
                            /\ stdout' = out
                            /\ external_jobid' =
                                   RecordExternalJobid(external_jobid, Output(k), out)
                   ELSE IF backend = "sync"
                   THEN /\ deps' = Deps(external_jobid, Input(k))
                        /\ UNCHANGED <<external_jobid, stdout>>
                   ELSE UNCHANGED submitvars
                /\ IF LockAcquire(lock, "poller")
                   THEN /\ runres' = [runres EXCEPT ![k] = "returned"]
                        /\ active_jobs' = Append(active_jobs, k)
                        /\ local' = Tail(local)
                        /\ pollerpc' = IF last THEN "sleep" ELSE "loop"
                        /\ lock' = IF last THEN "none" ELSE "poller"
                   ELSE /\ runres' = [runres EXCEPT ![k] = "running"]
                        /\ pollerpc' = "blocked"
                        /\ UNCHANGED <<active_jobs, local, lock>>
           ELSE /\ UNCHANGED <<remote, submitted, submitvars, active_jobs>>
                /\ IF s.exc # "none"
                   THEN /\ runres' = [runres EXCEPT ![k] = "raised"]
                        /\ pollerpc' = "dead"
                        /\ lock' = "none"
                        /\ local' = <<>>
                   ELSE /\ runres' = [runres EXCEPT ![k] = "returned"]
                        /\ local' = Tail(local)
                        /\ pollerpc' = IF last THEN "sleep" ELSE "loop"
                        /\ lock' = IF last THEN "none" ELSE "poller"
        /\ UNCHANGED <<backend, mainpc, mainjob, protected, tmpdir, wait, cpuvars,
                       session, control, shutdowns, call, wrappervars>>

\* a cluster executor whose callbacks may call back into it
ReentrantInit == ClusterInit

ReentrantNext ==
    \/ ClusterNext
    \/ PollCallbackShutdown
    \/ PollCallbackRun

ReentrantSpec == ReentrantInit /\ [][ReentrantNext]_vars

\* -------------------------------------------------------------- run_wrapper
\* run_wrapper is the task CPUExecutor.run submits to its pool.  It is
\* followed here call by call on its own, the executor left as constructed.

\* the wall-clock samples (whole seconds) one execution of the body may take
Samples == {1, 61, 3601}

\* how one execution of the rule body can end
BodyOutcomes == {"ok", "Exception", "KeyboardInterrupt", "SystemExit"}

\* runs = 1 if benchmark is None else benchmark_repeats
Runs(bench, repeats) == IF bench THEN repeats ELSE 1

\* str(datetime.timedelta(seconds=t)) for whole seconds below a day: h:mm:ss
Timedelta(t) == <<t \div 3600, (t % 3600) \div 60, t % 60>>

RECURSIVE BenchmarkLinesHeaderPerRow(_)
\* mutant of BenchmarkLines: the header is written once per sample
BenchmarkLinesHeaderPerRow(w) ==
    IF w = <<>> THEN <<>>
    ELSE <<<<"s", "h:m:s">>, <<Head(w), Timedelta(Head(w))>>>>
         \o BenchmarkLinesHeaderPerRow(Tail(w))

\* the lines run_wrapper prints to the benchmark file for the samples w
BenchmarkLines(w) ==
    <<<<"s", "h:m:s">>>> \o [i \in 1..Len(w) |-> <<w[i], Timedelta(w[i])>>]

\* what run_wrapper raises when the body raised ex
WrapBodyException(ex) ==
    IF ex \in {"KeyboardInterrupt", "SystemExit"} THEN ex ELSE "RuleException"

\* run_wrapper is called
WCall ==
    \E bench \in BOOLEAN, repeats \in 0..MaxRepeats :
        /\ wpc = "idle"
        /\ wpc' = "loop"
        /\ wbench' = bench
        /\ wrepeats' = repeats
        /\ UNCHANGED <<executorvars, wruns, wallclock, wfile, wexc>>

\* one pass of "for i in range(runs)": the body is executed and its
\* wall-clock time is appended, or the body's exception ends run_wrapper
WBody ==
    \E o \in BodyOutcomes, t \in Samples :
        /\ wpc = "loop"
        /\ wruns < Runs(wbench, wrepeats)
        /\ wruns' = wruns + 1
        /\ IF o = "ok"
           THEN /\ wallclock' = Append(wallclock, t)
                /\ UNCHANGED <<wpc, wexc>>
           ELSE /\ wpc' = "raised"
                /\ wexc' = WrapBodyException(o)
                /\ UNCHANGED wallclock
        /\ UNCHANGED <<executorvars, wbench, wrepeats, wfile>>

\* the loop is over: "if benchmark is not None" the file is written next
WLoopEnd ==
    /\ wpc = "loop"
    /\ wruns = Runs(wbench, wrepeats)
    /\ wpc' = IF wbench THEN "write" ELSE "returned"
    /\ UNCHANGED <<executorvars, wbench, wrepeats, wruns, wallclock, wfile, wexc>>

\* the benchmark file is written: open(benchmark, "w") and the prints all
\* succeed, or open fails, or a print fails after n lines; a failure is
\* raised as WorkflowError
WWrite ==
    \E wo \in {"ok", "open", "print"} :
        LET full == BenchmarkLines(wallclock) IN
        /\ wpc = "write"
        /\ IF wo = "ok"
           THEN /\ wfile' = <<full>>
                /\ wpc' = "returned"
                /\ UNCHANGED wexc
           ELSE /\ wpc' = "raised"
                /\ wexc' = "WorkflowError"
                /\ IF wo = "open"
                   THEN UNCHANGED wfile
                   ELSE \E n \in 0..(Len(full) - 1) : wfile' = <<SubSeq(full, 1, n)>>
        /\ UNCHANGED <<executorvars, wbench, wrepeats, wruns, wallclock>>

WrapperInit == Init /\ backend = "cpu"

WrapperNext == WCall \/ WBody \/ WLoopEnd \/ WWrite

WrapperSpec == WrapperInit /\ [][WrapperNext]_vars

\* ------------------------------------------------------------- the claims
Terminal(j) == Count(j, "on_success") + Count(j, "on_error")

Accepted(j) == runres[j] = "returned"

Interrupted(j) ==
    /\ backend = "cpu"
    /\ Handled(j)
    /\ future[j] \in ProcessPoolExceptions

\* C2: every job that run accepted eventually gets exactly one terminal
\* callback, unless the process-pool interrupt path was taken for it (as
\* claimed; the code does not guarantee it)
C2_EventuallyOneTerminalCallback ==
    \A j \in Jobs : [](Accepted(j) => <>(Terminal(j) = 1 \/ Interrupted(j)))

\* the events of the success protocol, in the order the spec gives them
SuccessProtocol == <<"handle_touch", "check_output", "handle_protected",
                     "handle_temp", "persistence_finished", "on_success">>

\* C3: whenever a real executor (touch, CPU, cluster) has invoked
\* on_success(J), then dag.handle_touch, dag.check_output,
\* dag.handle_protected, dag.handle_temp and persistence.finished each ran
\* once for J, in that order, all before on_success(J).
C3_SuccessAfterPostRunProtocol ==
    \A j \in Jobs :
        (backend # "dryrun" /\ Count(j, "on_success") > 0) =>
            /\ \A i \in 1..Len(SuccessProtocol) : Count(j, SuccessProtocol[i]) = 1
            /\ \A i \in 1..(Len(SuccessProtocol) - 1) :
                   Pos(j, SuccessProtocol[i]) < Pos(j, SuccessProtocol[i + 1])

\* the generic poller found a jobfinished sentinel and reported success
C3_Witness ==
    /\ backend = "generic"
    /\ \E j \in Jobs : Count(j, "on_success") = 1 /\ log[j][Len(log[j])][2] = "poller"

\* C4: whenever on_error(J) was invoked, on any backend, job.cleanup(J) and
\* persistence.cleanup(J) both ran for J before it (as claimed; only the CPU
\* executor's handler does so)
C4_ErrorAfterCleanup ==
    \A j \in Jobs :
        Count(j, "on_error") > 0 =>
            /\ 0 < Pos(j, "job_cleanup") /\ Pos(j, "job_cleanup") < Pos(j, "on_error")
            /\ 0 < Pos(j, "persistence_cleanup")
            /\ Pos(j, "persistence_cleanup") < Pos(j, "on_error")

\* C5: once shutdown of a cluster executor has returned, the poller thread
\* has ended and the executor's temp directory (with everything in it) does
\* not exist, whatever run calls were made before, none included.
C5_ShutdownLeavesNoPollerNoTmpdir ==
    (backend \in ClusterBackends /\ Has(shutdowns, "returned")) =>
        /\ pollerpc \in {"exited", "dead"}
        /\ tmpdir = "removed"
        /\ \A j \in Jobs : files[j] = {}

\* shutdown returned while an accepted job was still waiting in active_jobs
C5_Witness ==
    /\ backend \in ClusterBackends
    /\ shutdowns = <<"returned">>
    /\ active_jobs # <<>>
    /\ tmpdir = "removed"

\* a terminal callback of job j is invoked in this step
NewTerminal(j) == log'[j] # log[j] /\ Terminal(j)' > Terminal(j)

\* C6: on cluster backends, at the moment a terminal callback is invoked for
\* J, its job script and its sentinel files no longer exist and its DRMAA job
\* template has been deleted, a DRMAA error at submit included (as claimed;
\* DRMAAExecutor.run leaves the script and the template behind there)
C6_NoArtefactsAtTerminalCallback ==
    [][\A j \in Jobs :
          (backend \in ClusterBackends /\ NewTerminal(j)) =>
              (files'[j] = {} /\ template'[j] # "live")]_vars

\* C7: run on a job with a protected output raises at once, on every
\* backend: no persistence started marker, no pool task, no job script, no
\* submission and no callback (as claimed; only the inherited run checks)
C7_ProtectedOutputRejected ==
    \A j \in protected :
        /\ runres[j] = "raised"
        /\ Count(j, "persistence_started") = 0
        /\ future[j] = "none"
        /\ files[j] = {}
        /\ remote[j] = "none"
        /\ Count(j, "on_submit") = 0
        /\ Terminal(j) = 0

\* the thread of the terminal callback that this step invokes for job j
NewTerminalThread(j) == log'[j][Len(log'[j])][2]

\* C8, as claimed: no terminal callback of the CPU executor or of a cluster
\* executor is invoked on the thread that called run
C8_NoCallbackOnSubmittingThread ==
    \A j \in Jobs : \A i \in 1..Len(log[j]) :
        (backend \in ClusterBackends \cup {"cpu"}
            /\ log[j][i][1] \in {"on_success", "on_error"}) => log[j][i][2] # "main"

\* C8, amended: cluster callbacks are invoked on the poller thread, except
\* on_error for a DRMAA submission that failed, which run invokes itself;
\* CPU callbacks are invoked on a pool worker, except when the pool task
\* finished before the completion handler was attached, in which case
\* add_done_callback invokes them on the thread that called run.
C8_CallbackThreads ==
    [][\A j \in Jobs :
          NewTerminal(j) =>
              /\ backend \in ClusterBackends =>
                    IF backend = "drmaa" /\ remote'[j] = "none"
                    THEN NewTerminalThread(j) = "main" /\ Count(j, "on_error")' = 1
                    ELSE NewTerminalThread(j) = "poller"
              /\ backend = "cpu" =>
                    IF future[j] \in PoolOutcomes /\ ~attached[j]
                    THEN NewTerminalThread(j) = "main"
                    ELSE NewTerminalThread(j) = "worker"]_vars

\* a CPU pool task finished before its handler was attached, so the handler
\* ran on the submitting thread
C8_Witness ==
    /\ backend = "cpu"
    /\ \E j \in Jobs :
        /\ Terminal(j) = 1
        /\ log[j][Len(log[j])][2] = "main"

\* C9: in the synchronous backend, once the poller has seen the non-zero
\* exit of a job's submit process (it logged the job error), the script is
\* removed, on_error was invoked exactly once, the job is not in active_jobs
\* and the poller is still running (as claimed; the branch raises NameError)
C9_SynchronousFailureReported ==
    \A j \in Jobs :
        (backend = "sync" /\ Count(j, "print_job_error") > 0) =>
            /\ "script" \notin files[j]
            /\ Count(j, "on_error") = 1
            /\ ~Has(active_jobs, j)
            /\ pollerpc # "dead"

\* C10: in the CPU executor, when the pool task of J ended with a keyboard
\* interrupt, a system exit or a broken pool and the handler has run, then
\* job.cleanup and persistence.cleanup ran and no terminal callback was
\* invoked (as claimed; a system exit takes the error path)
C10_InterruptIsSilent ==
    \A j \in Jobs :
        (backend = "cpu" /\ Handled(j)
            /\ future[j] \in {"KeyboardInterrupt", "SystemExit", "BrokenProcessPool"}) =>
            /\ Count(j, "job_cleanup") = 1
            /\ Count(j, "persistence_cleanup") = 1
            /\ Terminal(j) = 0

\* C11: when CPUExecutor.shutdown (or cancel) returns, every job submitted
\* before has finished its pool task and its completion handler, whichever
\* pool it was routed to (as claimed; only self.pool is shut down, the thread
\* pool of the shell jobs is not waited for)
C11_ShutdownDrainsAllPools ==
    [][(backend = "cpu" /\ Len(shutdowns') > Len(shutdowns)) =>
          \A j \in Jobs : route[j] # "none" => Handled(j)']_vars

\* the poller ran the post-run protocol of job j and a collaborator raised
FinalizeFailed(j) ==
    /\ backend \in ClusterBackends
    /\ Count(j, "check_output") = 1
    /\ Count(j, "persistence_finished") = 0

\* C12: in cluster backends, when the post-run protocol raises in the poller
\* for one active job, on_error is invoked for that job only and the poller
\* goes on: every other accepted job is finalized or still active (as
\* claimed; nothing in _wait_for_jobs catches the exception, the thread ends)
C12_PollerFailureIsPerJob ==
    \A j \in Jobs :
        FinalizeFailed(j) =>
            /\ Count(j, "on_error") = 1
            /\ Count(j, "on_success") = 0
            /\ pollerpc # "dead"
            /\ \A k \in Jobs \ {j} :
                   (runres[k] = "returned" /\ ~FinalizeFailed(k)) =>
                       \/ Terminal(k) = 1
                       \/ Has(active_jobs, k)
                       \/ Has(local, k)

\* the TERMINATE requests made so far for external id j
Terminates(j) == {i \in 1..Len(control) : control[i][1] = j}

\* C13: when DRMAAExecutor.cancel returns, one TERMINATE request was made for
\* every external id submitted so far, each while the session was still open,
\* the poller thread has ended, the temp directory does not exist and the
\* session is exited.
C13_CancelTerminatesThenExits ==
    [][(backend = "drmaa" /\ call = "cancel" /\ Len(shutdowns') > Len(shutdowns)
            /\ shutdowns'[Len(shutdowns')] = "returned") =>
          /\ \A i \in 1..Len(submitted) :
                 /\ Cardinality(Terminates(submitted[i])') = 1
                 /\ \A k \in Terminates(submitted[i])' : control'[k][2] = "open"
          /\ pollerpc' \in {"exited", "dead"}
          /\ tmpdir' = "removed"
          /\ session' = "exited"]_vars

\* cancel returned after every job the scheduler passed was submitted
C13_Witness ==
    /\ backend = "drmaa"
    /\ shutdowns = <<"returned">>
    /\ Len(submitted) = NJobs
    /\ Len(control) = NJobs
    /\ session = "exited"

NonEmptyLines(out) == SelectSeq(Split(out, NL), LAMBDA l : l # <<>>)

\* C15: in the generic backend, once a job was submitted with exit code 0,
\* every output path of it is a key of external_jobid and maps to the first
\* non-empty line of the submit command's stdout (as claimed; the code takes
\* the first line, and records nothing when that line is empty)
C15_ExternalJobidIsFirstNonEmptyLine ==
    (backend = "generic" /\ mainpc \in {"append", "locked"}
        /\ NonEmptyLines(stdout) # <<>>) =>
        \A f \in Output(mainjob) :
            /\ f \in DOMAIN external_jobid
            /\ external_jobid[f] = NonEmptyLines(stdout)[1]

\* sub occurs in s as a substring
Contains(s, sub) ==
    \E i \in 0..(Len(s) - Len(sub)) : SubSeq(s, i + 1, i + Len(sub)) = sub

\* C16: in the generic and synchronous backends, when B reads an output of A
\* and A's run call completed before B's started, the dependency string of
\* B's submit command contains A's external id (as claimed; the synchronous
\* backend never fills external_jobid, the generic one not always: C15)
C16_DependenciesNameUpstreamId ==
    (backend \in {"generic", "sync"} /\ mainpc \in {"append", "locked"}) =>
        \A a \in Jobs :
            (/\ a < mainjob
             /\ runres[a] = "returned"
             /\ \E i \in 1..Len(Input(mainjob)) : Input(mainjob)[i] \in Output(a))
            => Contains(deps, ExtId(a))

\* what a dry run must leave alone: persistence markers, stats, outputs,
\* child processes and pool tasks
DryrunFrame(j) ==
    /\ \A e \in {"persistence_started", "persistence_finished", "persistence_cleanup",
                  "report_job_start", "report_job_end", "touch", "job_cleanup",
                  "prepare", "handle_touch", "handle_protected", "handle_temp"} :
           Count(j, e) = 0
    /\ files[j] = {}
    /\ future[j] = "none"
    /\ remote[j] = "none"

\* C17, as claimed: for every job passed to DryrunExecutor.run, on_success
\* was invoked exactly once before run returned, and persistence, stats,
\* outputs, children and pool tasks were left alone
C17_DryrunAlwaysSucceeds ==
    backend = "dryrun" =>
        \A j \in 1..nrun :
            /\ runres[j] = "returned"
            /\ Count(j, "on_success") = 1
            /\ DryrunFrame(j)

\* C17, amended: the same for every job without a read-only output; for a
\* job with a read-only output run raises protected-output and invokes no
\* callback, leaving the same things alone.
C17_DryrunSucceedsUnlessProtected ==
    backend = "dryrun" =>
        \A j \in 1..nrun :
            /\ j \notin protected =>
                   /\ runres[j] = "returned"
                   /\ Count(j, "on_success") = 1
                   /\ log[j][Len(log[j])] = <<"on_success", "main">>
                   /\ Count(j, "on_error") = 0
            /\ j \in protected =>
                   /\ runres[j] = "raised"
                   /\ Terminal(j) = 0
            /\ DryrunFrame(j)

\* the dry run refused a job with a read-only output and ran another
C17_Witness ==
    /\ backend = "dryrun"
    /\ \E j, k \in 1..nrun :
        /\ j \in protected /\ runres[j] = "raised"
        /\ k \notin protected /\ Count(k, "on_success") = 1

\* C18: in the generic backend, when the submit command exits non-zero, run
\* raises and the job is not accepted: active_jobs and external_jobid are
\* unchanged, and on_submit, on_success and on_error are not invoked for the
\* job, then or later.
C18_FailedSubmitIsRaisedAndForgotten ==
    [][\A j \in Jobs :
          (backend = "generic" /\ Count(j, "CalledProcessError")' > 0) =>
              /\ runres'[j] = "raised"
              /\ Count(j, "on_submit")' = 0
              /\ Terminal(j)' = 0
              /\ ~Has(active_jobs', j) /\ ~Has(local', j)
              /\ Output(j) \cap DOMAIN external_jobid' = {}
              /\ Count(j, "CalledProcessError") = 0 =>
                     /\ active_jobs' = active_jobs
                     /\ external_jobid' = external_jobid]_vars

\* a submission failed, and afterwards a later job was submitted and
\* finalized by the poller
C18_Witness ==
    /\ backend = "generic"
    /\ \E j, k \in Jobs :
        /\ j < k
        /\ Count(j, "CalledProcessError") = 1
        /\ Terminal(k) = 1

\* run itself reported job j through on_error (DRMAA error at submit)
SubmitErrorReported(j) ==
    \E i \in 1..Len(log[j]) : log[j][i] = <<"on_error", "main">>

\* C19: in the DRMAA backend, when createJobTemplate / runJob raises, run
\* invokes on_error exactly once, does not invoke on_submit, appends the job
\* neither to active_jobs nor to the submitted list and returns normally, and
\* the poller never invokes a second callback for the job.
C19_DrmaaSubmitErrorReportedOnce ==
    \A j \in Jobs :
        (backend = "drmaa" /\ SubmitErrorReported(j)) =>
            /\ runres[j] = "returned"
            /\ Count(j, "on_error") = 1
            /\ Count(j, "on_success") = 0
            /\ Count(j, "on_submit") = 0
            /\ ~Has(active_jobs, j) /\ ~Has(local, j)
            /\ ~Has(submitted, j)

\* a DRMAA submission failed, and afterwards the poller finalized a later job
C19_Witness ==
    /\ backend = "drmaa"
    /\ \E j, k \in Jobs :
        /\ j < k
        /\ SubmitErrorReported(j)
        /\ Terminal(k) = 1
        /\ log[k][Len(log[k])][2] = "poller"

\* C20: a second shutdown of a cluster executor, after an earlier call
\* returned, completes without error and leaves wait false, the poller ended
\* and the temp directory absent (as claimed; rmtree raises on the directory
\* that the first call removed)
C20_ShutdownIdempotent ==
    [][(/\ backend \in ClusterBackends
        /\ call = "shutdown"
        /\ Len(shutdowns') > Len(shutdowns)
        /\ Has(shutdowns, "returned")) =>
          /\ shutdowns'[Len(shutdowns')] = "returned"
          /\ wait' = FALSE
          /\ pollerpc' \in {"exited", "dead"}
          /\ tmpdir' = "removed"]_vars

\* run_wrapper has ended and no execution of the body raised
BodiesReturned == wpc \in {"returned", "raised"} /\ wexc \in {"none", "WorkflowError"}

\* run_wrapper has ended because an execution of the body raised
BodyRaised == wpc = "raised" /\ wexc # "WorkflowError"

\* the benchmark file holds the header and one data row per repeat
BenchmarkFileComplete ==
    /\ Len(wfile) = 1
    /\ Len(wfile[1]) = wrepeats + 1
    /\ wfile[1][1] = <<"s", "h:m:s">>
    /\ \A i \in 1..wrepeats : wfile[1][i + 1][1] = wallclock[i]

\* C21, as claimed: when no execution raises, run_wrapper executes the body
\* benchmark_repeats times (once without a benchmark path) and then writes a
\* benchmark file of one header row and benchmark_repeats data rows; when an
\* execution raises, the remaining ones are skipped and no file is written
C21_RepeatsAndRows ==
    /\ BodiesReturned =>
           /\ wruns = Runs(wbench, wrepeats)
           /\ wbench => BenchmarkFileComplete
           /\ ~wbench => wfile = <<>>
    /\ BodyRaised =>
           /\ wruns = Len(wallclock) + 1
           /\ wfile = <<>>

\* C21, amended: the same, except that when opening or writing the
\* benchmark file fails run_wrapper raises workflow-error, and the file is
\* then missing or incomplete.
C21_RepeatsAndRowsUnlessWriteFails ==
    /\ BodiesReturned =>
           /\ wruns = Runs(wbench, wrepeats)
           /\ (wbench /\ wexc = "none") => wpc = "returned" /\ BenchmarkFileComplete
           /\ wexc = "WorkflowError" =>
                  /\ wbench /\ wpc = "raised"
                  /\ wfile = <<>> \/ Len(wfile[1]) < wrepeats + 1
           /\ ~wbench => wfile = <<>> /\ wpc = "returned"
    /\ BodyRaised =>
           /\ wruns = Len(wallclock) + 1
           /\ wruns <= Runs(wbench, wrepeats)
           /\ wfile = <<>>

\* run_wrapper repeated the body MaxRepeats times and wrote the file
C21_Witness ==
    /\ wpc = "returned"
    /\ wbench
    /\ wrepeats = MaxRepeats
    /\ wruns = MaxRepeats
    /\ BenchmarkFileComplete

\* C22: in cluster executors every access to active_jobs and to wait is made
\* by a thread that holds the lock: the submitting thread is inside its
\* "with self.lock" blocks only as the holder, the poller is inside its
\* iteration only as the holder, and every step that changes active_jobs or
\* wait is a step of the holder.
C22_SharedStateUnderLock ==
    [][/\ mainpc' \in {"locked", "sd_locked"} => lock' = "main"
       /\ pollerpc' = "loop" => lock' = "poller"
       /\ (active_jobs' # active_jobs \/ wait' # wait) =>
              \/ lock = "main" /\ mainpc \in {"locked", "sd_locked"}
              \/ lock = "poller" /\ pollerpc = "loop"
              \/ lock = "none" /\ lock' = "poller" /\ pollerpc = "sleep"]_vars

\* run waits for the lock while the poller is inside an iteration
C22_Witness ==
    /\ mainpc = "append"
    /\ lock = "poller"
    /\ pollerpc = "loop"

\* C23: in the generic backend a job gets on_success only when the poller
\* examines it and its jobfinished sentinel exists, on_error only when the
\* poller examines it, jobfinished does not exist and jobfailed does; a job
\* examined without a sentinel gets no callback and is in active_jobs again.
C23_CallbacksNeedSentinel ==
    [][backend = "generic" =>
          \A j \in Jobs :
              /\ (log'[j] # log[j] /\ Count(j, "on_success")' > Count(j, "on_success")) =>
                     /\ pollerpc = "loop" /\ local # <<>> /\ j = Head(local)
                     /\ "jobfinished" \in files[j]
              /\ (log'[j] # log[j] /\ Count(j, "on_error")' > Count(j, "on_error")) =>
                     /\ pollerpc = "loop" /\ local # <<>> /\ j = Head(local)
                     /\ "jobfinished" \notin files[j]
                     /\ "jobfailed" \in files[j]
              /\ (/\ pollerpc = "loop" /\ local # <<>> /\ j = Head(local)
                  /\ local' # local
                  /\ files[j] \cap {"jobfinished", "jobfailed"} = {}) =>
                     /\ ~NewTerminal(j)
                     /\ Has(active_jobs', j)]_vars

\* one iteration reported a failed job and kept a job that is still running
C23_Witness ==
    /\ backend = "generic"
    /\ pollerpc = "sleep"
    /\ \E j, k \in Jobs :
        /\ Count(j, "on_error") = 1
        /\ Has(active_jobs, k) /\ remote[k] = "running"

\* the record of job j was appended to active_jobs
Appended(j) == runres[j] = "returned" /\ Count(j, "on_submit") = 1

\* C24: in cluster executors, as long as nothing raised in the poller, every
\* record appended to active_jobs is in active_jobs, in the list the poller
\* swapped out for its current iteration, or finalized by a terminal callback.
C24_NoRecordLost ==
    (backend \in ClusterBackends /\ pollerpc # "dead") =>
        \A j \in Jobs :
            Appended(j) => \/ Has(active_jobs, j)
                           \/ Has(local, j)
                           \/ Terminal(j) = 1

\* in the middle of an iteration: one job was kept, another is still to be
\* examined
C24_Witness ==
    /\ backend \in ClusterBackends
    /\ pollerpc = "loop"
    /\ active_jobs # <<>>
    /\ local # <<>>

\* C25: for every job a cluster backend accepted, on_submit was invoked
\* before any terminal callback of the job.
C25_SubmitBeforeTerminal ==
    \A j \in Jobs :
        (backend \in ClusterBackends /\ remote[j] # "none" /\ Terminal(j) > 0) =>
            /\ 0 < Pos(j, "on_submit")
            /\ Count(j, "on_success") > 0 => Pos(j, "on_submit") < Pos(j, "on_success")
            /\ Count(j, "on_error") > 0 => Pos(j, "on_submit") < Pos(j, "on_error")

\* the synchronous poller finalized a job
C25_Witness ==
    /\ backend = "sync"
    /\ \E j \in Jobs : Count(j, "on_submit") = 1 /\ Count(j, "on_success") = 1

\* C26: once shutdown or cancel of a cluster executor has returned, no
\* terminal callback is invoked any more and active_jobs stays as it is.
C26_NoCallbackAfterShutdown ==
    [][(backend \in ClusterBackends /\ Has(shutdowns, "returned")) =>
          /\ \A j \in Jobs : ~NewTerminal(j)
          /\ active_jobs' = active_jobs]_vars

\* after shutdown returned, the work of a job left in active_jobs ended and
\* the job has no terminal callback
C26_Witness ==
    /\ backend \in ClusterBackends
    /\ Has(shutdowns, "returned")
    /\ \E j \in Jobs :
        /\ Has(active_jobs, j)
        /\ remote[j] \in {"ok", "fail"}
        /\ Terminal(j) = 0

\* job j's terminal callback called shutdown, cancel or run of its executor
CalledBack(j) == Count(j, "call_shutdown") + Count(j, "call_run")

\* the poller wrote to some job's log
PollerActed ==
    \E j \in Jobs :
        /\ Len(log'[j]) > Len(log[j])
        /\ log'[j][Len(log'[j])][2] = "poller"

\* the poller works on its jobs and invokes their callbacks only as the
\* holder of the lock, and while it holds the lock no run appends to
\* active_jobs and no shutdown clears wait
PollerHoldsLock ==
    /\ PollerActed => lock = "poller"
    /\ lock = "poller" =>
          /\ wait' = wait
          /\ mainpc' \notin {"locked", "sd_locked"}
          /\ active_jobs' # active_jobs => local' # local

\* a poller blocked on its own lock stays blocked with the lock held
BlockedForever ==
    pollerpc = "blocked" =>
        /\ pollerpc' = "blocked"
        /\ lock' = "poller"
        /\ UNCHANGED <<active_jobs, local, wait>>

\* C27 as stated: the poller runs the post-run protocol and the terminal
\* callbacks while holding the non-reentrant lock, meanwhile no run appends
\* and no shutdown clears wait, and a callback that calls run or shutdown of
\* the same executor never returns.
C27_CallbackIntoExecutorNeverReturns ==
    [][/\ PollerHoldsLock
       /\ BlockedForever
       /\ \A j \in Jobs :
              (log'[j] # log[j] /\ CalledBack(j)' > CalledBack(j)) =>
                  pollerpc' = "blocked"]_vars

\* C27: the poller runs the post-run protocol and the terminal callbacks
\* while holding the non-reentrant lock, meanwhile no run appends and no
\* shutdown clears wait, and a callback that calls shutdown, or run with a
\* submission that is accepted, never returns.
C27_CallbackReachingLockNeverReturns ==
    [][/\ PollerHoldsLock
       /\ BlockedForever
       /\ \A j \in Jobs :
              /\ (/\ log'[j] # log[j]
                  /\ Count(j, "call_shutdown")' > Count(j, "call_shutdown")) =>
                     pollerpc' = "blocked"
              /\ (/\ log'[j] # log[j]
                  /\ Count(j, "call_run")' > Count(j, "call_run")
                  /\ remote'[nrun'] = "running") =>
                     pollerpc' = "blocked"]_vars

\* the deadlock: the poller is blocked in a callback that called run, and the
\* scheduler's shutdown waits for the lock
C27_Witness ==
    /\ pollerpc = "blocked"
    /\ lock = "poller"
    /\ mainpc = "sd_begin"
    /\ \E j \in Jobs : Count(j, "call_run") = 1

====
